---- MODULE Spec2Model ----
(***************************************************************************)
(* AuthorizationHandler.handle of mcp/server/auth/handlers/authorize.py:   *)
(* one authorization request, from the reading of its parameters to the    *)
(* response it returns (or the exception it lets escape).  Every call of   *)
(* an external collaborator (provider.get_client, client.validate_...,     *)
(* provider.authorize) is one step; its unexpected faults are chosen       *)
(* nondeterministically per call.                                          *)
(***************************************************************************)
EXTENDS Integers, Sequences, FiniteSets, TLC

\* ------------------------------------------------------------------ values
\* Python's None, for string-valued slots.
None == "<None>"
\* A key that the parameter source does not hold.
Absent == "<absent>"
\* A value of the parameter source that is not a str (an UploadFile of a form).
NonStr == "<file>"

\* A parsed URL: scheme://host/path and its query as a list of (key, value).
NoUrl == [base |-> None, query |-> <<>>]
NoClient == [client_id |-> None, redirect_uris |-> <<>>, scope |-> <<>>]

Keys == {"client_id", "redirect_uri", "response_type", "code_challenge",
         "code_challenge_method", "state", "scope"}
\* params = None
NoParams == [k \in Keys |-> None]
NoRequest == [redirect_uri |-> NoUrl] @@ [k \in Keys |-> None]

\* Raw parameter values a request is drawn from.
ClientIds == {"c1", "c2", "nobody"}
UrlStrings == {"https://app.example/cb?foo=1", "https://app.example/cb",
               "https://app.example", "https://evil.example/x",
               "ftp://app.example/cb", "not a url"}
ResponseTypes == {"code", "token"}
Challenges == {"E9Melhoa2OwvFrEMTJguCHaoeK1t8URWbuGJSstw-cM"}
ChallengeMethods == {"S256", "plain"}
States == {"xyz", ""}
ScopeStrings == {"read", "admin", "read admin"}
Methods == {"GET", "POST"}

\* ------------------------------------------------- external collaborators
\* pydantic's AnyHttpUrl on a str: the parsed URL (an empty path becomes "/"),
\* or NoUrl when the string is no absolute http(s) URL.
ParseHttpUrl(s) ==
    CASE s = "https://app.example/cb?foo=1" ->
            [base |-> "https://app.example/cb", query |-> << <<"foo", "1">> >>]
      [] s = "https://app.example/cb" ->
            [base |-> "https://app.example/cb", query |-> <<>>]
      [] s = "https://app.example" ->
            [base |-> "https://app.example/", query |-> <<>>]
      [] s = "https://evil.example/x" ->
            [base |-> "https://evil.example/x", query |-> <<>>]
      [] OTHER -> NoUrl

\* str.split(" ") of a scope string.
SplitScope(s) ==
    CASE s = "read" -> <<"read">>
      [] s = "admin" -> <<"admin">>
      [] s = "read admin" -> <<"read", "admin">>
      [] OTHER -> <<s>>

\* The provider's client store.
Client1 == [client_id |-> "c1",
            redirect_uris |-> << ParseHttpUrl("https://app.example/cb?foo=1") >>,
            scope |-> <<"read">>]
Client2 == [client_id |-> "c2",
            redirect_uris |-> << ParseHttpUrl("https://app.example/cb"),
                                 ParseHttpUrl("https://app.example") >>,
            scope |-> <<"read", "admin">>]

\* provider.get_client(client_id) when it returns: the client or None.
get_client(client_id) ==
    CASE client_id = "c1" -> Client1
      [] client_id = "c2" -> Client2
      [] OTHER -> NoClient

Range(s) == {s[i] : i \in DOMAIN s}

\* client.validate_redirect_uri(candidate): [ok, uri, message].
validate_redirect_uri(c, candidate) ==
    IF candidate # NoUrl
    THEN IF candidate \in Range(c.redirect_uris)
         THEN [ok |-> TRUE, uri |-> candidate, message |-> None]
         ELSE [ok |-> FALSE, uri |-> NoUrl,
               message |-> "Redirect URI not registered for client"]
    ELSE IF Len(c.redirect_uris) = 1
         THEN [ok |-> TRUE, uri |-> c.redirect_uris[1], message |-> None]
         ELSE [ok |-> FALSE, uri |-> NoUrl,
               message |-> "redirect_uri must be specified when client has multiple registered URIs"]

\* client.validate_scope(requested): [ok, scopes, message].
validate_scope(c, requested) ==
    IF requested = None
    THEN [ok |-> TRUE, scopes |-> <<>>, message |-> None]
    ELSE IF Range(SplitScope(requested)) \subseteq Range(c.scope)
         THEN [ok |-> TRUE, scopes |-> SplitScope(requested), message |-> None]
         ELSE [ok |-> FALSE, scopes |-> <<>>,
               message |-> "Client was not registered with scope"]

\* What provider.authorize may do: return the next URI, or raise AuthorizeError.
DelegateUris == { [base |-> "https://as.example/consent", query |-> << <<"txn", "42">> >>],
                  [base |-> "https://app.example/cb", query |-> << <<"code", "abc">> >>] }
DelegateErrors == { [error |-> "access_denied", error_description |-> "User denied"],
                    [error |-> "temporarily_unavailable", error_description |-> None] }

\* construct_redirect_uri(base, **fields): the base's query kept, the non-None
\* fields appended after it in the order of the error response's fields.
construct_redirect_uri(uri, resp) ==
    LET add(k) == IF resp[k] = None THEN <<>> ELSE << <<k, resp[k]>> >>
    IN [base |-> uri.base,
        query |-> uri.query \o add("error") \o add("error_description") \o add("state")]

\* ------------------------------------------------------- pure code helpers
\* best_effort_extract_string(key, params)
best_effort_extract_string(key, p) ==
    IF p = NoParams THEN None
    ELSE IF p[key] \in {Absent, NonStr} THEN None
    ELSE p[key]

\* AuthorizationRequest.model_validate(params): the (loc, type) of every error.
SchemaErrors(p) ==
    (IF p.client_id = Absent THEN {<<"client_id", "missing">>}
     ELSE IF p.client_id = NonStr THEN {<<"client_id", "string_type">>} ELSE {})
    \cup
    (IF p.redirect_uri = Absent THEN {}
     ELSE IF p.redirect_uri = NonStr THEN {<<"redirect_uri", "url_type">>}
     ELSE IF ParseHttpUrl(p.redirect_uri) = NoUrl
          THEN {<<"redirect_uri", "url_parsing">>} ELSE {})
    \cup
    (IF p.response_type = Absent THEN {<<"response_type", "missing">>}
     ELSE IF p.response_type # "code" THEN {<<"response_type", "literal_error">>}
     ELSE {})
    \cup
    (IF p.code_challenge = Absent THEN {<<"code_challenge", "missing">>} ELSE {})
    \cup
    (IF p.code_challenge_method \notin {Absent, "S256"}
     THEN {<<"code_challenge_method", "literal_error">>} ELSE {})
    \cup
    (IF p.state = NonStr THEN {<<"state", "string_type">>} ELSE {})
    \cup
    (IF p.scope = NonStr THEN {<<"scope", "string_type">>} ELSE {})

\* The validated AuthorizationRequest of parameters without schema errors.
ValidatedRequest(p) ==
    [client_id |-> p.client_id,
     redirect_uri |-> IF p.redirect_uri = Absent THEN NoUrl
                      ELSE ParseHttpUrl(p.redirect_uri),
     response_type |-> p.response_type,
     code_challenge |-> p.code_challenge,
     code_challenge_method |-> IF p.code_challenge_method = Absent THEN "S256"
                               ELSE p.code_challenge_method,
     state |-> IF p.state = Absent THEN None ELSE p.state,
     scope |-> IF p.scope = Absent THEN None ELSE p.scope]

\* Mutant: the loop forgets to test the error's type, so a missing
\* response_type counts as an unsupported one.
SchemaErrorCode_AnyResponseTypeError(errs) ==
    IF \E e \in errs : e[1] = "response_type"
    THEN "unsupported_response_type"
    ELSE "invalid_request"

\* The error code of a schema failure (the loop over validation_error.errors()).
SchemaErrorCode(errs) ==
    IF <<"response_type", "literal_error">> \in errs
    THEN "unsupported_response_type"
    ELSE "invalid_request"

\* ------------------------------------------------------------------ state
VARIABLES
    method,        \* request.method
    raw,           \* the parameters the request carries (query string or form)
    params,        \* handle's params: NoParams until they are read
    state,         \* handle's state
    redirect_uri,  \* handle's redirect_uri: NoUrl until validated
    client,        \* handle's client: NoClient until resolved
    auth_request,  \* the validated AuthorizationRequest
    scopes,        \* the result of validate_scope
    auth_params,   \* the AuthorizationParams handed to provider.authorize
    pc,            \* the position of handle
    erError,       \* error_response's argument error
    erDesc,        \* error_response's argument error_description
    erAttempt,     \* error_response's argument attempt_load_client
    inCatch,       \* TRUE inside the catch-all except clause (lines 219-226)
    response,      \* the response handle returned
    raised,        \* the exception that escaped handle
    calls,         \* history: the collaborator calls made, in order
    logCount,      \* history: calls of logger.exception
    erEntries      \* history: entries into error_response

\* create_error_redirect, applied on its own
VARIABLES
    cerUri,        \* its argument redirect_uri, as urlparse splits it
    cerError,      \* its argument error
    cerResult      \* the URI it returned

cer == <<cerUri, cerError, cerResult>>
data == <<method, raw, params, state, redirect_uri, client, auth_request, scopes>>
ctl == <<pc, erError, erDesc, erAttempt, inCatch, response, raised, logCount, erEntries>>
vars == <<data, ctl, calls, auth_params, cer>>

NoBody == [error |-> None, error_description |-> None, state |-> None]
NoResponse == [status |-> 0, kind |-> None, location |-> NoUrl, body |-> NoBody,
               cache |-> None]

NoAuthParams == [state |-> None, scopes |-> <<>>, code_challenge |-> None,
                 redirect_uri |-> NoUrl]

\* Mutant: the bundle takes the redirect_uri as requested, not as validated.
AuthParams_RequestedUri(st, sc, req, uri) ==
    [state |-> st, scopes |-> sc, code_challenge |-> req.code_challenge,
     redirect_uri |-> req.redirect_uri]

\* AuthorizationParams(state=state, scopes=scopes,
\*     code_challenge=auth_request.code_challenge, redirect_uri=redirect_uri)
AuthParams(st, sc, req, uri) ==
    [state |-> st, scopes |-> sc, code_challenge |-> req.code_challenge,
     redirect_uri |-> uri]

\* One entry of the call history.
\* arg is the candidate handed to validate_redirect_uri (NoUrl for None).
Call(fn, site, out, uri, code) ==
    [fn |-> fn, site |-> site, out |-> out, uri |-> uri, code |-> code,
     arg |-> NoUrl]

\* The requests: POST forms may hold non-str values, query strings never do.
Requests ==
    { r \in [client_id : ClientIds \cup {Absent, NonStr},
             redirect_uri : UrlStrings \cup {Absent, NonStr},
             response_type : ResponseTypes \cup {Absent},
             code_challenge : Challenges \cup {Absent},
             code_challenge_method : ChallengeMethods \cup {Absent},
             state : States \cup {Absent, NonStr},
             scope : ScopeStrings \cup {Absent}] : TRUE }

HasNonStr(r) == \E k \in Keys : r[k] = NonStr

\* No URI composed: the state of create_error_redirect's variables in handle.
NoCerUri == [base |-> None, query |-> None]
NoCerError == [kind |-> None, error |-> None, error_description |-> None,
               error_uri |-> None, state |-> None]

\* The locals of handle at its entry (lines 85-88), nothing sent or called yet.
HandleEntry ==
    /\ params = NoParams
    /\ state = None
    /\ redirect_uri = NoUrl
    /\ client = NoClient
    /\ auth_request = NoRequest
    /\ scopes = <<>>
    /\ auth_params = NoAuthParams
    /\ erError = None
    /\ erDesc = None
    /\ erAttempt = TRUE
    /\ inCatch = FALSE
    /\ response = NoResponse
    /\ raised = None
    /\ calls = <<>>
    /\ logCount = 0
    /\ erEntries = 0

Init ==
    /\ method \in Methods
    /\ raw \in Requests
    /\ (method = "GET" => ~HasNonStr(raw))
    /\ HandleEntry
    /\ pc = "parse"
    /\ cerUri = NoCerUri
    /\ cerError = NoCerError
    /\ cerResult = NoCerUri

\* ------------------------------------------------------------ control flow
Goto(p) ==
    /\ pc' = p
    /\ UNCHANGED <<erError, erDesc, erAttempt, inCatch, response, raised,
                   logCount, erEntries>>

\* return await error_response(error, error_description, attempt_load_client)
EnterErrorResponse(error, description, attempt) ==
    /\ pc' = "er_client"
    /\ erError' = error
    /\ erDesc' = description
    /\ erAttempt' = attempt
    /\ erEntries' = erEntries + 1
    /\ UNCHANGED <<inCatch, response, raised, logCount>>

\* Mutant: the catch-all clause reports invalid_request.
CatchAll_InvalidRequest ==
    /\ pc' = "er_client"
    /\ erError' = "invalid_request"
    /\ erDesc' = "An unexpected error occurred"
    /\ erAttempt' = TRUE
    /\ inCatch' = TRUE
    /\ logCount' = logCount + 1
    /\ erEntries' = erEntries + 1
    /\ UNCHANGED <<response, raised>>

\* except Exception: logger.exception(...); return await error_response(
\*     error="server_error", error_description="An unexpected error occurred")
CatchAll ==
    /\ pc' = "er_client"
    /\ erError' = "server_error"
    /\ erDesc' = "An unexpected error occurred"
    /\ erAttempt' = TRUE
    /\ inCatch' = TRUE
    /\ logCount' = logCount + 1
    /\ erEntries' = erEntries + 1
    /\ UNCHANGED <<response, raised>>

\* An exception raised at the current position: inside the try it reaches the
\* catch-all clause; inside that clause it leaves handle.
Throw(exc) ==
    IF inCatch
    THEN /\ pc' = "done"
         /\ raised' = exc
         /\ UNCHANGED <<erError, erDesc, erAttempt, inCatch, response, logCount,
                        erEntries>>
    ELSE CatchAll

Return(resp) ==
    /\ pc' = "done"
    /\ response' = resp
    /\ UNCHANGED <<erError, erDesc, erAttempt, inCatch, raised, logCount, erEntries>>

\* ---------------------------------------------------------------- responses
\* Mutant: the success redirect is sent without the Cache-Control header.
SuccessResponse_NoCacheHeader(uri) ==
    [status |-> 302, kind |-> "redirect", location |-> uri, body |-> NoBody,
     cache |-> None]

\* Mutant: the success redirect appends the request's state to the URI.
SuccessResponse_WithState(uri) ==
    [status |-> 302, kind |-> "redirect",
     location |-> [base |-> uri.base,
                   query |-> uri.query \o (IF state = None THEN <<>>
                                           ELSE << <<"state", state>> >>)],
     body |-> NoBody, cache |-> "no-store"]

\* RedirectResponse(url=await self.provider.authorize(...), status_code=302,
\*                  headers={"Cache-Control": "no-store"})
SuccessResponse(uri) ==
    [status |-> 302, kind |-> "redirect", location |-> uri, body |-> NoBody,
     cache |-> "no-store"]

\* Mutant: the error response is built without state=state.
ErrorResponse_NoState(error, description, st, uri, c) ==
    LET error_resp == [error |-> error, error_description |-> description,
                       state |-> None]
    IN IF uri # NoUrl /\ c # NoClient
       THEN [status |-> 302, kind |-> "redirect",
             location |-> construct_redirect_uri(uri, error_resp),
             body |-> NoBody, cache |-> "no-store"]
       ELSE [status |-> 400, kind |-> "json", location |-> NoUrl,
             body |-> error_resp, cache |-> "no-store"]

\* The tail of error_response: the AuthorizationErrorResponse, sent as a
\* redirect to redirect_uri when redirect_uri and client are both set, and as
\* a JSON body otherwise.
ErrorResponse(error, description, st, uri, c) ==
    LET error_resp == [error |-> error, error_description |-> description,
                       state |-> st]
    IN IF uri # NoUrl /\ c # NoClient
       THEN [status |-> 302, kind |-> "redirect",
             location |-> construct_redirect_uri(uri, error_resp),
             body |-> NoBody, cache |-> "no-store"]
       ELSE [status |-> 400, kind |-> "json", location |-> NoUrl,
             body |-> error_resp, cache |-> "no-store"]

\* Mutant: the client-not-found call leaves attempt_load_client at its default.
NotFoundAttemptLoadClient_Default == TRUE

\* attempt_load_client of the client-not-found call of error_response.
NotFoundAttemptLoadClient == FALSE

\* Mutant: a rejected last-ditch validation falls back to the raw value.
LastDitchRedirectUri_Fallback(v, candidate) ==
    IF v.ok THEN v.uri ELSE candidate

\* What the except clause of the last-ditch redirect_uri validation leaves in
\* redirect_uri: the validated URI, or nothing when validation rejected it.
LastDitchRedirectUri(v, candidate) ==
    IF v.ok THEN v.uri ELSE NoUrl

\* Mutant: the delegate's error code is rewritten to server_error.
AuthorizeErrorArgs_ServerError(e) ==
    [error |-> "server_error", error_description |-> e.error_description]

\* The error and description handed to error_response for an AuthorizeError e.
AuthorizeErrorArgs(e) ==
    [error |-> e.error, error_description |-> e.error_description]

\* Mutant: a rejected scope is reported as invalid_request.
ScopeErrorCode_InvalidRequest == "invalid_request"

\* The error handed to error_response when validate_scope rejects.
ScopeErrorCode == "invalid_scope"

\* ------------------------------------------------------------------ actions
\* Lines 139-147: read the parameters, save the raw state.
Parse ==
    /\ pc = "parse"
    /\ \/ /\ params' = raw
          /\ state' = best_effort_extract_string("state", raw)
          /\ Goto("validate_schema")
       \/ \* await request.form() raises
          /\ method = "POST"
          /\ UNCHANGED <<params, state>>
          /\ Throw("Exception")
    /\ UNCHANGED <<method, raw, redirect_uri, client, auth_request, scopes, calls>>
    /\ UNCHANGED <<auth_params, cer>>

\* Lines 149-160: AuthorizationRequest.model_validate(params).
ValidateSchema ==
    /\ pc = "validate_schema"
    /\ LET errs == SchemaErrors(params) IN
       IF errs = {}
       THEN /\ auth_request' = ValidatedRequest(params)
            /\ state' = ValidatedRequest(params).state
            /\ Goto("resolve_client")
       ELSE /\ UNCHANGED <<auth_request, state>>
            /\ EnterErrorResponse(SchemaErrorCode(errs), "validation_error", TRUE)
    /\ UNCHANGED <<method, raw, params, redirect_uri, client, scopes, calls>>
    /\ UNCHANGED <<auth_params, cer>>

\* Lines 163-172: client = await self.provider.get_client(client_id).
ResolveClient ==
    /\ pc = "resolve_client"
    /\ \/ LET c == get_client(auth_request.client_id) IN
          /\ client' = c
          /\ calls' = Append(calls, Call("get_client", "main",
                                         IF c = NoClient THEN "none" ELSE "ok",
                                         NoUrl, None))
          /\ IF c = NoClient
             THEN EnterErrorResponse("invalid_request", "Client ID not found",
                                     NotFoundAttemptLoadClient)
             ELSE Goto("validate_redirect")
       \/ /\ UNCHANGED client
          /\ calls' = Append(calls, Call("get_client", "main", "fault", NoUrl, None))
          /\ Throw("Exception")
    /\ UNCHANGED <<method, raw, params, state, redirect_uri, auth_request, scopes>>
    /\ UNCHANGED <<auth_params, cer>>

\* Lines 175-182: redirect_uri = client.validate_redirect_uri(...).
ValidateRedirect ==
    /\ pc = "validate_redirect"
    /\ \/ LET v == validate_redirect_uri(client, auth_request.redirect_uri) IN
          /\ redirect_uri' = v.uri
          /\ calls' = Append(calls, [Call("validate_redirect_uri", "main",
                                          IF v.ok THEN "ok" ELSE "reject",
                                          v.uri, None)
                                     EXCEPT !.arg = auth_request.redirect_uri])
          /\ IF v.ok
             THEN Goto("validate_scope")
             ELSE EnterErrorResponse("invalid_request", v.message, TRUE)
       \/ /\ UNCHANGED redirect_uri
          /\ calls' = Append(calls, [Call("validate_redirect_uri", "main", "fault",
                                          NoUrl, None)
                                     EXCEPT !.arg = auth_request.redirect_uri])
          /\ Throw("Exception")
    /\ UNCHANGED <<method, raw, params, state, client, auth_request, scopes>>
    /\ UNCHANGED <<auth_params, cer>>

\* Lines 185-192: scopes = client.validate_scope(auth_request.scope).
ValidateScope ==
    /\ pc = "validate_scope"
    /\ \/ LET v == validate_scope(client, auth_request.scope) IN
          /\ scopes' = v.scopes
          /\ calls' = Append(calls, Call("validate_scope", "main",
                                         IF v.ok THEN "ok" ELSE "reject",
                                         NoUrl, None))
          /\ IF v.ok
             THEN Goto("delegate")
             ELSE EnterErrorResponse(ScopeErrorCode, v.message, TRUE)
       \/ /\ UNCHANGED scopes
          /\ calls' = Append(calls, Call("validate_scope", "main", "fault",
                                         NoUrl, None))
          /\ Throw("Exception")
    /\ UNCHANGED <<method, raw, params, state, redirect_uri, client, auth_request>>
    /\ UNCHANGED <<auth_params, cer>>

\* Lines 195-217: await self.provider.authorize(client, auth_params).
Delegate ==
    /\ pc = "delegate"
    /\ \/ \E uri \in DelegateUris :
             /\ calls' = Append(calls, Call("authorize", "main", "ok", uri, None))
             /\ Return(SuccessResponse(uri))
       \/ \E e \in DelegateErrors :
             /\ calls' = Append(calls, Call("authorize", "main", "error",
                                            redirect_uri, e.error))
             /\ EnterErrorResponse(AuthorizeErrorArgs(e).error,
                                   AuthorizeErrorArgs(e).error_description, TRUE)
       \/ /\ calls' = Append(calls, Call("authorize", "main", "fault",
                                         redirect_uri, None))
          /\ Throw("Exception")
    /\ auth_params' = AuthParams(state, scopes, auth_request, redirect_uri)
    /\ UNCHANGED <<data, cer>>

\* Lines 96-99 of error_response: the last-ditch attempt to load the client.
ErLoadClient ==
    /\ pc = "er_client"
    /\ IF client = NoClient /\ erAttempt
       THEN LET client_id == best_effort_extract_string("client_id", params) IN
            IF client_id = None
            THEN /\ UNCHANGED <<client, calls>>
                 /\ Goto("er_redirect")
            ELSE \/ /\ client' = get_client(client_id)
                    /\ calls' = Append(calls, Call("get_client", "recovery",
                                  IF get_client(client_id) = NoClient THEN "none"
                                  ELSE "ok", NoUrl, None))
                    /\ Goto("er_redirect")
                 \/ /\ UNCHANGED client
                    /\ calls' = Append(calls, Call("get_client", "recovery",
                                                   "fault", NoUrl, None))
                    /\ Throw("Exception")
       ELSE /\ UNCHANGED <<client, calls>>
            /\ Goto("er_redirect")
    /\ UNCHANGED <<method, raw, params, state, redirect_uri, auth_request, scopes>>
    /\ UNCHANGED <<auth_params, cer>>

\* Mutant: the last-ditch effort ignores the raw parameter and always asks
\* for the client's default URI.
LastDitchRawRedirectUri_AlwaysDefault(p) ==
    [raises |-> FALSE, value |-> NoUrl]

\* raw_redirect_uri of error_response (lines 102-107): None when params has no
\* "redirect_uri", otherwise the parsed raw value; model_validate raises when
\* the value is no str or no absolute http(s) URL.
LastDitchRawRedirectUri(p) ==
    IF p # NoParams /\ p.redirect_uri = Absent
    THEN [raises |-> FALSE, value |-> NoUrl]
    ELSE LET s == best_effort_extract_string("redirect_uri", p)
             parsed == IF s = None THEN NoUrl ELSE ParseHttpUrl(s)
         IN [raises |-> parsed = NoUrl, value |-> parsed]

\* Lines 100-111 of error_response: the last-ditch effort to load the
\* redirect uri.  The raw value is parsed before the try block is entered.
ErLoadRedirect ==
    /\ pc = "er_redirect"
    /\ IF redirect_uri = NoUrl /\ client # NoClient
       THEN LET r == LastDitchRawRedirectUri(params)
                raw_redirect_uri == r.value
            IN IF r.raises
               THEN \* AnyHttpUrlModel.model_validate raises
                    /\ UNCHANGED <<redirect_uri, calls>>
                    /\ Throw("ValidationError")
               ELSE \/ LET v == validate_redirect_uri(client, raw_redirect_uri) IN
                       /\ redirect_uri' = LastDitchRedirectUri(v, raw_redirect_uri)
                       /\ calls' = Append(calls,
                                     [Call("validate_redirect_uri", "recovery",
                                           IF v.ok THEN "ok" ELSE "reject",
                                           v.uri, None)
                                      EXCEPT !.arg = raw_redirect_uri])
                       /\ Goto("er_emit")
                    \/ /\ UNCHANGED redirect_uri
                       /\ calls' = Append(calls,
                                     [Call("validate_redirect_uri", "recovery",
                                           "fault", NoUrl, None)
                                      EXCEPT !.arg = raw_redirect_uri])
                       /\ Throw("Exception")
       ELSE /\ UNCHANGED <<redirect_uri, calls>>
            /\ Goto("er_emit")
    /\ UNCHANGED <<method, raw, params, state, client, auth_request, scopes>>
    /\ UNCHANGED <<auth_params, cer>>

\* Lines 112-135 of error_response: load state, build and return the response.
ErEmit ==
    /\ pc = "er_emit"
    /\ state' = IF state = None THEN best_effort_extract_string("state", params)
                ELSE state
    /\ Return(ErrorResponse(erError, erDesc, state', redirect_uri, client))
    /\ UNCHANGED <<method, raw, params, redirect_uri, client, auth_request, scopes,
                   calls>>
    /\ UNCHANGED <<auth_params, cer>>

Next ==
    \/ Parse
    \/ ValidateSchema
    \/ ResolveClient
    \/ ValidateRedirect
    \/ ValidateScope
    \/ Delegate
    \/ ErLoadClient
    \/ ErLoadRedirect
    \/ ErEmit

Spec == Init /\ [][Next]_vars

\* ------------------------------------------------------- reading the result
Done == pc = "done"
Responded == Done /\ response # NoResponse
Escaped == Done /\ raised # None

CallsOf(fn) == {i \in DOMAIN calls : calls[i].fn = fn}
CallsWith(fn, out) == {i \in CallsOf(fn) : calls[i].out = out}
MainCallsWith(fn, out) == {i \in CallsWith(fn, out) : calls[i].site = "main"}
NoFault == \A i \in DOMAIN calls : calls[i].out # "fault"

\* The response is the delegate's redirect (not an error response).
IsSuccess == Responded /\ CallsWith("authorize", "ok") # {}
ErrorResponded == Responded /\ ~IsSuccess

\* The URIs validate_redirect_uri returned for the request's client.
ValidatedUris == {calls[i].uri : i \in CallsWith("validate_redirect_uri", "ok")}

Lookup(seq, k) ==
    IF \E i \in DOMAIN seq : seq[i][1] = k
    THEN seq[CHOOSE i \in DOMAIN seq : seq[i][1] = k][2]
    ELSE None

\* The query fields an error redirect appended to the URI u it redirects to.
Appended(u) ==
    SubSeq(response.location.query, Len(u.query) + 1, Len(response.location.query))

\* The response redirects to u: u's base and query, then the appended fields.
RedirectsTo(u) ==
    /\ response.status = 302
    /\ response.kind = "redirect"
    /\ response.location.base = u.base
    /\ Len(response.location.query) >= Len(u.query)
    /\ SubSeq(response.location.query, 1, Len(u.query)) = u.query

IsDirectJson ==
    /\ response.status = 400
    /\ response.kind = "json"
    /\ response.location = NoUrl

\* A field of the error response, wherever it was delivered.
RespField(k) ==
    IF response.kind = "json" THEN response.body[k]
    ELSE Lookup(Appended(redirect_uri), k)

RequiredKeys == {"client_id", "response_type", "code_challenge"}
MissingRequired(r) == \E k \in RequiredKeys : r[k] = Absent

\* The raw redirect_uri as the error router hands it to validate_redirect_uri.
RawCandidate(r) ==
    IF r.redirect_uri \in {Absent, NonStr} THEN NoUrl ELSE ParseHttpUrl(r.redirect_uri)

\* The raw redirect_uri is a str that is no absolute http(s) URL.
MalformedRedirect(r) ==
    r.redirect_uri \in UrlStrings /\ ParseHttpUrl(r.redirect_uri) = NoUrl

\* ------------------------------------------------------------------ claims

\* C1: an error response is a 302 redirect exactly when get_client returned a
\* client and that client's validate_redirect_uri returned a URI for this
\* request; otherwise it is a direct 400 JSON body.  An error redirect goes to
\* a URI validate_redirect_uri returned, never to another value.
C1_RedirectIffClientAndValidatedUri ==
    ErrorResponded =>
        LET resolved == CallsWith("get_client", "ok") # {}
        IN /\ (response.status = 302) <=> (resolved /\ ValidatedUris # {})
           /\ response.status = 302 => \E u \in ValidatedUris : RedirectsTo(u)
           /\ response.status # 302 => IsDirectJson

\* An error was redirected to a URI that only the error router's last-ditch
\* validation established.
C1_Witness ==
    /\ ErrorResponded
    /\ response.status = 302
    /\ \E i \in CallsWith("validate_redirect_uri", "ok") : calls[i].site = "recovery"

\* C2: handle always ends by returning a 302 or 400 response; no exception
\* leaves it.
C2_NoErrorEscapes ==
    Done => /\ raised = None
            /\ response.status \in {302, 400}

\* C3 as stated: a request that misses a required field gets invalid_request
\* as a direct 400 response, whatever its client_id and redirect_uri are.
C3_MissingFieldAlwaysDirect ==
    (/\ Responded
     /\ logCount = 0
     /\ MissingRequired(raw)
     /\ raw.response_type \in {Absent, "code"})
    => /\ IsDirectJson
       /\ response.body.error = "invalid_request"

\* C3 amended: for a request that misses a required field and has no
\* response_type mismatch, the response of the error router entered at the
\* schema failure has error invalid_request; it is a 302 redirect to the
\* validated URI when the raw client_id resolves to a client whose
\* validate_redirect_uri accepts the raw redirect_uri, and a direct 400 JSON
\* body otherwise.
C3_MissingFieldInvalidRequest ==
    (/\ Responded
     /\ logCount = 0
     /\ MissingRequired(raw)
     /\ raw.response_type \in {Absent, "code"})
    => LET c == IF raw.client_id \in ClientIds THEN get_client(raw.client_id)
                ELSE NoClient
           v == validate_redirect_uri(c, RawCandidate(raw))
       IN /\ RespField("error") = "invalid_request"
          /\ IF c # NoClient /\ v.ok THEN RedirectsTo(v.uri) ELSE IsDirectJson

\* A request without code_challenge was answered by a redirect to the
\* client's registered URI.
C3_Witness ==
    /\ Responded
    /\ logCount = 0
    /\ raw.code_challenge = Absent
    /\ raw.response_type = "code"
    /\ response.status = 302
    /\ RespField("error") = "invalid_request"

\* C4 as stated: whenever get_client returned no client the response is a
\* direct 400 JSON body with error invalid_request.
C4_UnknownClientInvalidRequest ==
    (Done /\ CallsWith("get_client", "none") # {})
    => /\ Responded
       /\ IsDirectJson
       /\ response.body.error = "invalid_request"

\* C4 amended: whenever get_client returned no client, handle returns a direct
\* 400 JSON body and never a redirect, for every redirect_uri; its error is
\* invalid_request on the main path, and on the error router's recovery it is
\* the error the router was entered with (the schema failure's code, or
\* server_error after an unexpected fault).
C4_UnknownClientDirect ==
    (Done /\ CallsWith("get_client", "none") # {})
    => /\ Responded
       /\ raised = None
       /\ IsDirectJson
       /\ redirect_uri = NoUrl
       /\ MainCallsWith("get_client", "none") # {}
            => response.body.error = "invalid_request"
       /\ MainCallsWith("get_client", "none") = {}
            => response.body.error =
                 IF logCount > 0 THEN "server_error"
                 ELSE SchemaErrorCode(SchemaErrors(raw))

\* An unknown client with a registered-looking redirect_uri, on each path.
C4_Witness ==
    /\ Done
    /\ raw.client_id = "nobody"
    /\ raw.redirect_uri = "https://app.example/cb"
    /\ CallsWith("get_client", "none") # {}
    /\ MainCallsWith("get_client", "none") = {}
    /\ response.body.error = "unsupported_response_type"

\* C5: when the client resolves and validate_redirect_uri rejects the
\* supplied (or absent) redirect_uri on the main path (and no call of it ends
\* in an unexpected fault), the error router's second call on the raw
\* parameter is rejected too: redirect_uri stays unset and the response is a
\* direct 400 JSON body with invalid_request, never a redirect.
C5_RejectedRedirectIsDirect ==
    (/\ Done
     /\ MainCallsWith("validate_redirect_uri", "reject") # {}
     /\ CallsWith("validate_redirect_uri", "fault") = {})
    => /\ Responded
       /\ IsDirectJson
       /\ response.body.error = "invalid_request"
       /\ redirect_uri = NoUrl
       /\ Cardinality(CallsWith("validate_redirect_uri", "reject")) = 2
       /\ CallsWith("validate_redirect_uri", "ok") = {}

\* A syntactically valid but unregistered redirect_uri was rejected twice.
C5_Witness ==
    /\ Responded
    /\ raw.redirect_uri = "https://evil.example/x"
    /\ MainCallsWith("validate_redirect_uri", "reject") # {}
    /\ Cardinality(CallsWith("validate_redirect_uri", "reject")) = 2

\* C6: a malformed raw redirect_uri with a resolvable client_id ends in a
\* direct 400 JSON response with invalid_request, without an exception.
C6_MalformedRedirectIsInvalidRequest ==
    (/\ Done
     /\ params = raw
     /\ NoFault
     /\ MalformedRedirect(raw)
     /\ raw.client_id \in {"c1", "c2"}
     /\ SchemaErrorCode(SchemaErrors(raw)) = "invalid_request")
    => /\ raised = None
       /\ IsDirectJson
       /\ response.body.error = "invalid_request"
       /\ redirect_uri = NoUrl

\* C7: a schema failure's response carries unsupported_response_type when
\* response_type is present and not "code", and invalid_request otherwise.
C7_SchemaErrorCode ==
    (/\ Done
     /\ params = raw
     /\ NoFault
     /\ SchemaErrors(raw) # {})
    => /\ Responded
       /\ RespField("error") =
            IF raw.response_type \notin {Absent, "code"}
            THEN "unsupported_response_type" ELSE "invalid_request"

\* C8: when validate_scope rejects (client and redirect URI validated), the
\* response is a 302 redirect to the validated URI with error=invalid_scope
\* and the request's state appended, and authorize is not called.
C8_ScopeErrorRedirects ==
    (Done /\ CallsWith("validate_scope", "reject") # {})
    => /\ Responded
       /\ \E i \in MainCallsWith("validate_redirect_uri", "ok") :
             /\ RedirectsTo(calls[i].uri)
             /\ Lookup(Appended(calls[i].uri), "error") = "invalid_scope"
             /\ Lookup(Appended(calls[i].uri), "state") =
                  IF raw.state = Absent THEN None ELSE raw.state
       /\ CallsOf("authorize") = {}

\* A rejected scope on a URI that already has a query, with a state.
C8_Witness ==
    /\ Responded
    /\ CallsWith("validate_scope", "reject") # {}
    /\ raw.state = "xyz"
    /\ redirect_uri.query # <<>>

\* C9: an AuthorizeError of the delegate is answered by a 302 redirect to the
\* validated URI whose error and error_description are the delegate's.
C9_AuthorizeErrorPassedThrough ==
    (Done /\ CallsWith("authorize", "error") # {})
    => /\ Responded
       /\ \E i \in MainCallsWith("validate_redirect_uri", "ok") :
             RedirectsTo(calls[i].uri)
       /\ \E i \in CallsWith("authorize", "error") :
             \E e \in DelegateErrors :
                /\ e.error = calls[i].code
                /\ RespField("error") = e.error
                /\ RespField("error_description") = e.error_description

\* The delegate denied access.
C9_Witness ==
    /\ Responded
    /\ \E i \in CallsWith("authorize", "error") : calls[i].code = "access_denied"

\* C10: a request that passed schema, client, redirect URI and scope
\* validation reaches authorize exactly once, and the URI authorize returns
\* is the Location of the 302 response, unmodified.
C10_SuccessIsDelegateUri ==
    /\ Cardinality(CallsOf("authorize")) <= 1
    /\ (/\ Done
        /\ MainCallsWith("get_client", "ok") # {}
        /\ MainCallsWith("validate_redirect_uri", "ok") # {}
        /\ MainCallsWith("validate_scope", "ok") # {})
       => /\ Cardinality(CallsOf("authorize")) = 1
          /\ \A i \in CallsWith("authorize", "ok") :
                /\ Responded
                /\ response.status = 302
                /\ response.kind = "redirect"
                /\ response.location = calls[i].uri
                /\ response.body = NoBody

\* The delegate returned a URI for a request that carries a state.
C10_Witness ==
    /\ IsSuccess
    /\ raw.state = "xyz"
    /\ raw.scope = "read"

\* The collaborator calls that ended in an unexpected fault.
FaultCalls == {i \in DOMAIN calls : calls[i].out = "fault"}

\* C11: a request in which an unexpected fault reached the catch-all clause
\* (at most one of them a collaborator's) is answered with server_error: by a
\* 302 redirect to the validated URI when the delegate raised it, otherwise
\* by a direct JSON body unless recovery established client and redirect URI;
\* the fault is logged exactly once.
C11_FaultYieldsServerError ==
    (/\ Done
     /\ logCount > 0
     /\ Cardinality(FaultCalls) <= 1)
    => /\ logCount = 1
       /\ Responded
       /\ RespField("error") = "server_error"
       /\ CallsWith("authorize", "fault") # {}
            => \E i \in MainCallsWith("validate_redirect_uri", "ok") :
                  RedirectsTo(calls[i].uri)
       /\ (client = NoClient \/ redirect_uri = NoUrl) => IsDirectJson

\* C12: every error response carries the raw state parameter when the
\* parameters were read and hold a str under "state"; state is left out only
\* when the parameters hold no str state or were never read.
C12_StateEchoed ==
    ErrorResponded =>
        /\ (params = raw /\ raw.state \in States) => RespField("state") = raw.state
        /\ RespField("state") = None => (raw.state \notin States \/ params = NoParams)
        /\ RespField("state") # None => RespField("state") = raw.state

\* State was echoed on a redirect after a schema failure and on a JSON body
\* after an unexpected fault.
C12_Witness ==
    /\ ErrorResponded
    /\ raw.state = "xyz"
    /\ RespField("state") = "xyz"
    /\ \/ response.status = 302 /\ SchemaErrors(raw) # {}
       \/ response.status = 400 /\ logCount = 1

\* The main-path calls, in the order they were made.
MainCalls == {i \in DOMAIN calls : calls[i].site = "main"}

\* C13: authorize is called only as the fourth call, after the schema was
\* validated and get_client, validate_redirect_uri and validate_scope returned
\* in this order; the redirect_uri of its AuthorizationParams is the URI
\* validate_redirect_uri returned, one of the client's registered URIs; a
\* main-path call that does not return is the last main-path call.
C13_SequentialShortCircuit ==
    /\ \A i \in CallsOf("authorize") :
          /\ i = 4
          /\ auth_request = ValidatedRequest(raw)
          /\ SchemaErrors(raw) = {}
          /\ calls[1].fn = "get_client" /\ calls[1].out = "ok"
          /\ calls[2].fn = "validate_redirect_uri" /\ calls[2].out = "ok"
          /\ calls[3].fn = "validate_scope" /\ calls[3].out = "ok"
          /\ auth_params.redirect_uri = calls[2].uri
          /\ auth_params.redirect_uri \in Range(client.redirect_uris)
          /\ auth_params.scopes = scopes
          /\ auth_params.state = ValidatedRequest(raw).state
    /\ \A i \in MainCalls : \A j \in MainCalls :
          i < j => calls[i].out = "ok"
    /\ MainCalls # {} => SchemaErrors(raw) = {}
    /\ CallsOf("authorize") = {} => auth_params = NoAuthParams

\* The delegate was called for a request without redirect_uri: the bundle
\* holds the client's registered URI.
C13_Witness ==
    /\ Done
    /\ CallsOf("authorize") # {}
    /\ raw.redirect_uri = Absent
    /\ auth_params.redirect_uri = Client1.redirect_uris[1]

\* A call of get_client or authorize that failed: it raised, or found nothing.
FailedExternalCalls ==
    {i \in CallsOf("get_client") \cup CallsOf("authorize") : calls[i].out # "ok"}

\* C14 as stated: when a call of get_client or authorize fails, error_response
\* is entered exactly once for the request and the failed call is not made
\* again.
C14_NoRetry ==
    (Done /\ FailedExternalCalls # {})
    => /\ erEntries = 1
       /\ \A i \in FailedExternalCalls :
             \A j \in DOMAIN calls : j > i => calls[j].fn # calls[i].fn

\* C14 amended: a failed authorize (AuthorizeError or fault) and a main-path
\* get_client that returns nothing are terminal: no collaborator is called
\* again and error_response is entered exactly once.  A get_client that
\* raised is called once more by error_response's last-ditch client load (at
\* most two get_client calls per request), and error_response is entered a
\* second time only when an exception was raised inside its first entry.
C14_NoRetryOfDelegate ==
    /\ Cardinality(CallsOf("authorize")) <= 1
    /\ Cardinality(CallsOf("get_client")) <= 2
    /\ erEntries <= 2
    /\ erEntries = 2 => (inCatch /\ logCount = 1)
    /\ \A i \in CallsOf("authorize") \cup MainCallsWith("get_client", "none") :
          /\ i = Len(calls)
          /\ (Done /\ calls[i].out # "ok") => erEntries = 1
    /\ \A i \in CallsOf("get_client") : \A j \in CallsOf("get_client") :
          i < j => /\ calls[i].out = "fault"
                   /\ calls[j].site = "recovery"
    /\ (Done /\ MainCallsWith("get_client", "fault") # {}) => erEntries = 1

\* get_client raised on the main path and was called again in recovery, with
\* one router entry.
C14_Witness ==
    /\ Done
    /\ MainCallsWith("get_client", "fault") # {}
    /\ Cardinality(CallsOf("get_client")) = 2
    /\ erEntries = 1

\* --------------------------------------------------- create_error_redirect
\* urllib's quote_plus on the values used here.
QuotePlus(v) ==
    CASE v = "User denied" -> "User+denied"
      [] v = "An unknown error occurred" -> "An+unknown+error+occurred"
      [] v = "Scope not allowed" -> "Scope+not+allowed"
      [] v = "https://err.example/doc" -> "https%3A%2F%2Ferr.example%2Fdoc"
      [] OTHER -> v

RECURSIVE JoinAmp(_)
JoinAmp(parts) ==
    IF parts = <<>> THEN ""
    ELSE IF Len(parts) = 1 THEN parts[1]
    ELSE parts[1] \o "&" \o JoinAmp(Tail(parts))

\* urlencode(query_params): key=quote_plus(value), joined by "&".
urlencode(pairs) ==
    JoinAmp([i \in DOMAIN pairs |-> pairs[i][1] \o "=" \o QuotePlus(pairs[i][2])])

\* The fields of AuthorizationErrorResponse in the order model_dump gives them.
ErrorFields == <<"error", "error_description", "error_uri", "state">>

\* query_params of create_error_redirect (lines 234-251), in insertion order.
QueryParams(error) ==
    IF error.kind = "response"
    THEN LET present == SelectSeq(ErrorFields, LAMBDA k : error[k] # None)
         IN [i \in DOMAIN present |-> <<present[i], error[present[i]]>>]
    ELSE IF error.kind = "oauth"
    THEN << <<"error", error.error>>,
            <<"error_description", error.error_description>> >>
    ELSE << <<"error", "server_error">>,
            <<"error_description", "An unknown error occurred">> >>

\* Mutant: the new query replaces the URI's query.
create_error_redirect_ReplaceQuery(uri, error) ==
    [base |-> uri.base, query |-> urlencode(QueryParams(error))]

\* create_error_redirect(redirect_uri, error), lines 229-257.
create_error_redirect(uri, error) ==
    LET new_query == urlencode(QueryParams(error))
    IN [base |-> uri.base,
        query |-> IF uri.query # "" THEN uri.query \o "&" \o new_query
                  ELSE new_query]

\* urlunparse of the result.
UrlUnparse(u) == IF u.query = "" THEN u.base ELSE u.base \o "?" \o u.query

\* The arguments create_error_redirect is applied to.
CerUris ==
    [base : {"https://app.example/cb"},
     query : {"", "foo=1", "error=old", "foo=1&state=abc"}]
CerErrors ==
    [kind : {"response"},
     error : {"invalid_scope", "access_denied", "server_error"},
     error_description : {None, "Scope not allowed"},
     error_uri : {None, "https://err.example/doc"},
     state : {None, "xyz"}]
    \cup
    { [kind |-> "oauth", error |-> "invalid_client",
       error_description |-> "User denied", error_uri |-> None, state |-> None],
      [kind |-> "exception", error |-> None, error_description |-> None,
       error_uri |-> None, state |-> None] }

ComposeInit ==
    /\ method = "GET"
    /\ raw = [k \in Keys |-> Absent]
    /\ HandleEntry
    /\ pc = "compose"
    /\ cerUri \in CerUris
    /\ cerError \in CerErrors
    /\ cerResult = NoCerUri

CreateErrorRedirect ==
    /\ pc = "compose"
    /\ cerResult' = create_error_redirect(cerUri, cerError)
    /\ pc' = "composed"
    /\ UNCHANGED <<erError, erDesc, erAttempt, inCatch, response, raised, logCount,
                   erEntries, data, calls, auth_params, cerUri, cerError>>

ComposeNext == CreateErrorRedirect

ComposeSpec == ComposeInit /\ [][ComposeNext]_vars

\* "k=v" of a field of the error response, or nothing when it is null.
FieldPart(e, k) == IF e[k] = None THEN <<>> ELSE << k \o "=" \o QuotePlus(e[k]) >>

\* C15: create_error_redirect keeps the base URI and puts its existing query
\* first, unchanged, then the error response's non-null fields in the order
\* error, error_description, error_uri, state, with no deduplication;
\* {error: invalid_scope, state: xyz} on a base with query foo=1 gives
\* https://app.example/cb?foo=1&error=invalid_scope&state=xyz.
C15_ComposeAppends ==
    (pc = "composed" /\ cerError.kind = "response") =>
        /\ cerResult.base = cerUri.base
        /\ cerResult.query =
             JoinAmp((IF cerUri.query = "" THEN <<>> ELSE <<cerUri.query>>)
                     \o FieldPart(cerError, "error")
                     \o FieldPart(cerError, "error_description")
                     \o FieldPart(cerError, "error_uri")
                     \o FieldPart(cerError, "state"))
        /\ (/\ cerUri.query = "foo=1"
            /\ cerError.error = "invalid_scope"
            /\ cerError.error_description = None
            /\ cerError.error_uri = None
            /\ cerError.state = "xyz")
           => UrlUnparse(cerResult) =
                "https://app.example/cb?foo=1&error=invalid_scope&state=xyz"
        /\ (cerUri.query = "error=old" /\ cerError.error = "server_error"
            /\ cerError.error_description = None /\ cerError.error_uri = None
            /\ cerError.state = None)
           => cerResult.query = "error=old&error=server_error"

\* An error with a state was composed onto a base that already has an error
\* field.
C15_Witness ==
    /\ pc = "composed"
    /\ cerError.kind = "response"
    /\ cerUri.query = "error=old"
    /\ cerError.state = "xyz"
    /\ cerResult.query = "error=old&error=invalid_scope&state=xyz"

\* C16: every response handle returns has status 302 or 400 and the header
\* Cache-Control: no-store.
C16_NoStoreOnEveryResponse ==
    Responded => /\ response.status \in {302, 400}
                 /\ response.cache = "no-store"
                 /\ response.status = 302 <=> response.kind = "redirect"
                 /\ response.status = 400 <=> response.kind = "json"

\* The three kinds of response were returned: this one is the delegate's
\* redirect of a request without state.
C16_Witness ==
    /\ IsSuccess
    /\ raw.state = Absent
    /\ response.cache = "no-store"

\* The recovery calls of validate_redirect_uri that returned or rejected.
RecoveryValidations ==
    {i \in CallsOf("validate_redirect_uri") :
        calls[i].site = "recovery" /\ calls[i].out \in {"ok", "reject"}}

\* C17: when the error router recovers the client from the raw client_id
\* (no client from the main path) and the raw redirect_uri is absent or
\* parses, validate_redirect_uri is called with None for an absent parameter
\* and with the parsed raw value otherwise; when it returns, the error is a
\* 302 redirect to the URI it returned, and when it rejects, redirect_uri
\* stays unset and the error is a direct 400 JSON body.
C17_RecoveryValidatesRawRedirect ==
    (/\ Done
     /\ MainCallsWith("get_client", "ok") = {}
     /\ CallsWith("get_client", "ok") # {}
     /\ CallsWith("validate_redirect_uri", "fault") = {}
     /\ raw.redirect_uri # NonStr
     /\ ~MalformedRedirect(raw))
    => /\ Cardinality(RecoveryValidations) = 1
       /\ \A i \in RecoveryValidations :
             /\ calls[i].arg = IF raw.redirect_uri = Absent THEN NoUrl
                               ELSE ParseHttpUrl(raw.redirect_uri)
             /\ calls[i].out = "ok"
                  => /\ Responded
                     /\ RedirectsTo(calls[i].uri)
                     /\ RespField("error") = erError
             /\ calls[i].out = "reject"
                  => /\ Responded
                     /\ redirect_uri = NoUrl
                     /\ IsDirectJson
                     /\ response.body.error = erError

\* Recovery after a schema failure: an absent redirect_uri gave the default
\* URI of the client.
C17_Witness ==
    /\ Done
    /\ MainCallsWith("get_client", "ok") = {}
    /\ raw.redirect_uri = Absent
    /\ raw.client_id = "c1"
    /\ \E i \in RecoveryValidations :
          calls[i].arg = NoUrl /\ calls[i].out = "ok" /\ RedirectsTo(calls[i].uri)

\* C18: after the main-path get_client returned nothing, error_response runs
\* with attempt_load_client false: get_client was called exactly once,
\* validate_redirect_uri never, and client and redirect_uri stay unset.
C18_NotFoundNoRecovery ==
    MainCallsWith("get_client", "none") # {}
    => /\ Cardinality(CallsOf("get_client")) = 1
       /\ CallsOf("validate_redirect_uri") = {}
       /\ Len(calls) = 1
       /\ client = NoClient
       /\ redirect_uri = NoUrl
       /\ erAttempt = FALSE
       /\ erEntries = 1

\* The request of an unknown client was answered.
C18_Witness ==
    /\ Responded
    /\ MainCallsWith("get_client", "none") # {}
    /\ raw.redirect_uri = "https://app.example/cb?foo=1"

\* C19: when the parameters were never read, handle calls no collaborator and
\* returns a direct 400 JSON body with server_error and no state.
C19_UnreadParamsServerError ==
    (Done /\ params = NoParams)
    => /\ calls = <<>>
       /\ raised = None
       /\ IsDirectJson
       /\ response.body.error = "server_error"
       /\ response.body.state = None
       /\ client = NoClient
       /\ redirect_uri = NoUrl

\* request.form() raised for a form that holds a client_id and a state.
C19_Witness ==
    /\ Responded
    /\ params = NoParams
    /\ raw.client_id = "c1"
    /\ raw.state = "xyz"

====
